---- MODULE Spec2Model ----
(***************************************************************************)
(* Model of the user-space cron component (src/src/component/public.ts):    *)
(* the `crons` table, the platform scheduler (`_scheduled_functions`), and  *)
(* the mutations register, del and rescheduler, each one atomic            *)
(* transaction, with the queries get and list as operators.                *)
(***************************************************************************)
EXTENDS Integers, Sequences, FiniteSets, TLC

----------------------------------------------------------------------------
(* Bounds of the model. *)

\* Number of ids the `crons` table hands out (successful inserts).
MaxJobs == 2
\* Number of entries the scheduler table may hold.
MaxScheduled == 5

----------------------------------------------------------------------------
(* Values. *)

\* validateSchedule: "Interval must be >= 1000ms".
MinIntervalMs == 1000

\* An absent scheduler job id (the optional fields schedulerJobId and
\* executionJobId of a row; `!cron.schedulerJobId`).
NoHandle == 0

\* No row id: what `last` holds for a call that names no row.
NoId == 0

\* An optional value: <<>> is undefined, <<x>> is x.
None == <<>>
Some(x) == <<x>>

\* The name strings callers pass; the empty string is a string.
NameStrings == {"", "daily"}
OptNames == {None} \cup {Some(n) : n \in NameStrings}

\* Cron expressions callers pass, and the period in ms of those that parse:
\* "* * * * * *" fires every second, "*/2 * * * * *" every other second,
\* "0 0 * * *" every day at midnight.
CronPeriod == [c \in {"* * * * * *", "*/2 * * * * *", "0 0 * * *"} |->
                 IF c = "* * * * * *" THEN MinIntervalMs
                 ELSE IF c = "*/2 * * * * *" THEN 2 * MinIntervalMs
                 ELSE 24 * 60 * 60 * MinIntervalMs]
CronSpecs == {"*/2 * * * * *", "not a cronspec"}

\* A schedule's ms is a JavaScript number (v.number(), a float64), whole or
\* not. The model keeps one binary digit of fraction: a number is
\* represented by the integer that is twice its value. Times (Date values,
\* scheduledTime) are whole numbers of ms and are kept as such.
Num(x) == 2 * x

\* new Date(number): the time value is the number with its fraction dropped
\* (TimeClip); the numbers here are not negative.
NewDate(n) == n \div 2

\* The intervals callers pass: 999.5 ms and 1000 ms.
IntervalMs == {Num(MinIntervalMs) - 1, Num(MinIntervalMs)}

\* Intervals of 1000 ms and 1000.5 ms, both >= 1000.
AcceptedMs == {Num(MinIntervalMs), Num(MinIntervalMs) + 1}

Schedules == {[kind |-> "interval", ms |-> m] : m \in IntervalMs}
               \cup {[kind |-> "cron", cronspec |-> c] : c \in CronSpecs}

\* Function handles and argument bundles of payloads (opaque to the component).
FunctionHandles == {"function://logStuff"}
PayloadArgs == {"message"}

\* The target of a scheduler entry armed by scheduleNextRun.
ReschedulerFn == "internal.public.rescheduler"

\* States of a scheduler entry that are still active.
Active == {"pending", "inProgress"}

VARIABLES
  crons,      \* the `crons` table: id -> row
  nextId,     \* the next id the table hands out; ids are never reused
  scheduled,  \* the scheduler's table: handle (index) -> entry
  inflight,   \* handles of reschedulers the scheduler has invoked, not yet run
  now,        \* the wall clock (new Date()), in ms
  last        \* the last call: its operation, the error it threw and its row

vars == <<crons, nextId, scheduled, inflight, now, last>>

----------------------------------------------------------------------------
(* The scheduler (ctx.scheduler, ctx.db.system). *)

\* ctx.scheduler.runAt(t, fn, args): a new pending entry; its handle is its
\* index. `by` records the cron job whose transaction created the entry.
RunAt(sched, t, fn, args, by) ==
  Append(sched, [fn |-> fn, args |-> args, scheduledTime |-> t,
                 state |-> "pending", by |-> by])

\* ctx.scheduler.cancel(h): cancels a pending or in-progress entry, and is
\* a no-op on any other.
Cancel(sched, h) ==
  IF h \in DOMAIN sched /\ sched[h].state \in Active
    THEN [sched EXCEPT ![h].state = "canceled"]
    ELSE sched

\* The entry's state once the function it ran has returned or thrown.
Finish(sched, h, st) ==
  IF sched[h].state \in Active THEN [sched EXCEPT ![h].state = st] ELSE sched

----------------------------------------------------------------------------
(* Schedules. *)

\* parser.parseExpression(cronspec) succeeds.
CronParses(cronspec) == cronspec \in DOMAIN CronPeriod

\* parser.parseExpression(cronspec, {currentDate}).next(): the first
\* occurrence strictly after currentDate.
CronNext(cronspec, currentDate) ==
  ((currentDate \div CronPeriod[cronspec]) + 1) * CronPeriod[cronspec]

\* validateSchedule without its interval check.
validateSchedule_NoIntervalCheck(schedule) ==
  IF schedule.kind = "cron" /\ ~CronParses(schedule.cronspec)
    THEN "invalid-cronspec"
  ELSE "none"

\* validateSchedule: the error it throws, or "none".
validateSchedule(schedule) ==
  IF schedule.kind = "interval" /\ schedule.ms < Num(MinIntervalMs)
    THEN "invalid-interval"
  ELSE IF schedule.kind = "cron" /\ ~CronParses(schedule.cronspec)
    THEN "invalid-cronspec"
  ELSE "none"

\* calculateNextRun taking an occurrence at lastScheduled itself for the
\* next one.
calculateNextRun_Inclusive(lastScheduled, schedule) ==
  IF schedule.kind = "interval"
    THEN NewDate(Num(lastScheduled) + schedule.ms)
    ELSE CronNext(schedule.cronspec, lastScheduled - 1)

\* calculateNextRun: new Date(lastScheduled.getTime() + schedule.ms) for an
\* interval, the cron expression's next occurrence otherwise.
calculateNextRun(lastScheduled, schedule) ==
  IF schedule.kind = "interval"
    THEN NewDate(Num(lastScheduled) + schedule.ms)
    ELSE CronNext(schedule.cronspec, lastScheduled)

\* scheduleNextRun arming the rescheduler twice.
scheduleNextRun_ArmsTwice(db, sched, id, lastScheduled, schedule) ==
  LET t == calculateNextRun(lastScheduled, schedule)
      sched2 == RunAt(RunAt(sched, t, ReschedulerFn, id, id),
                      t, ReschedulerFn, id, id)
  IN [crons |-> [db EXCEPT ![id].schedulerJobId = Len(sched2)],
      scheduled |-> sched2]

\* scheduleNextRun: arms the rescheduler at the next run and patches the
\* row's schedulerJobId with the new handle. Yields the two tables.
scheduleNextRun(db, sched, id, lastScheduled, schedule) ==
  LET sched2 == RunAt(sched, calculateNextRun(lastScheduled, schedule),
                      ReschedulerFn, id, id)
  IN [crons |-> [db EXCEPT ![id].schedulerJobId = Len(sched2)],
      scheduled |-> sched2]

----------------------------------------------------------------------------
(* Queries. *)

\* ctx.db.query("crons").withIndex("name", q => q.eq("name", name)): the ids
\* of the rows with that name.
WithName(db, name) == {i \in DOMAIN db : db[i].name = Some(name)}

\* .unique(): null for no row, the row for one, an error for several.
Unique(db, ids) ==
  IF ids = {} THEN [kind |-> "null"]
  ELSE IF Cardinality(ids) = 1
    THEN LET i == CHOOSE i \in ids : TRUE
         IN [kind |-> "doc", id |-> i, doc |-> db[i]]
  ELSE [kind |-> "error"]

\* ctx.db.get(id).
DbGet(db, id) ==
  IF id \in DOMAIN db THEN [kind |-> "doc", id |-> id, doc |-> db[id]]
  ELSE [kind |-> "null"]

\* get: by id or by name.
get(db, identifier) ==
  IF "id" \in DOMAIN identifier
    THEN DbGet(db, identifier.id)
    ELSE Unique(db, WithName(db, identifier.name))

\* list reading the name index: the rows that have a name.
list_NamedOnly(db) ==
  {[id |-> i, doc |-> db[i]] : i \in {i \in DOMAIN db : db[i].name # None}}

\* list: all rows.
list(db) == {[id |-> i, doc |-> db[i]] : i \in DOMAIN db}

Identifiers == {[id |-> i] : i \in 1..MaxJobs}
                 \cup {[name |-> n] : n \in NameStrings}

----------------------------------------------------------------------------
(* register *)

\* `name && ...unique()`: the duplicate-name check of register. JavaScript's
\* && skips the query for an undefined name and for the empty string.
NameTaken(db, name) ==
  /\ name # None
  /\ name[1] # ""
  /\ Unique(db, WithName(db, name[1])).kind # "null"

\* The error register throws for these arguments, or "none".
RegisterError(db, name, schedule) ==
  IF NameTaken(db, name) THEN "duplicate-name"
  ELSE validateSchedule(schedule)

\* The row register inserts.
NewRow(name, schedule, functionHandle, args) ==
  [name |-> name, schedule |-> schedule, functionHandle |-> functionHandle,
   args |-> args, schedulerJobId |-> NoHandle, executionJobId |-> NoHandle]

\* ctx.db.insert("crons", row) with id `id`.
Insert(db, id, row) ==
  [i \in DOMAIN db \cup {id} |-> IF i = id THEN row ELSE db[i]]

\* register inserting the row before it validates, the row surviving the
\* error.
Register_InsertsThenValidates(name, schedule, functionHandle, args) ==
  LET err == RegisterError(crons, name, schedule)
      db2 == Insert(crons, nextId,
                    NewRow(name, schedule, functionHandle, args))
  IN /\ nextId <= MaxJobs
     /\ Len(scheduled) < MaxScheduled
     /\ nextId' = nextId + 1
     /\ UNCHANGED <<inflight, now>>
     /\ IF err # "none"
          THEN /\ crons' = db2
               /\ last' = [op |-> "register", err |-> err, id |-> NoId]
               /\ UNCHANGED scheduled
          ELSE LET out == scheduleNextRun(db2, scheduled, nextId, now, schedule)
               IN /\ crons' = out.crons
                  /\ scheduled' = out.scheduled
                  /\ last' = [op |-> "register", err |-> "none", id |-> nextId]

Register(name, schedule, functionHandle, args) ==
  LET err == RegisterError(crons, name, schedule)
  IN IF err # "none"
       THEN /\ last' = [op |-> "register", err |-> err, id |-> NoId]
            /\ UNCHANGED <<crons, nextId, scheduled, inflight, now>>
       ELSE /\ nextId <= MaxJobs
            /\ Len(scheduled) < MaxScheduled
            /\ LET db2 == Insert(crons, nextId,
                                 NewRow(name, schedule, functionHandle, args))
                   out == scheduleNextRun(db2, scheduled, nextId, now, schedule)
               IN /\ crons' = out.crons
                  /\ scheduled' = out.scheduled
            /\ nextId' = nextId + 1
            /\ last' = [op |-> "register", err |-> "none", id |-> nextId]
            /\ UNCHANGED <<inflight, now>>

----------------------------------------------------------------------------
(* del *)

\* del resolving a name with a query that leaves the name out.
DelLookup_AnyRow(db, identifier) ==
  IF "id" \in DOMAIN identifier
    THEN DbGet(db, identifier.id)
    ELSE Unique(db, DOMAIN db)

\* The row del resolves the identifier to, as get does.
DelLookup(db, identifier) == get(db, identifier)

\* del without the check of the row's schedulerJobId.
DelError_NoScheduledCheck(db, identifier) ==
  LET found == DelLookup(db, identifier)
  IN IF found.kind = "error" THEN "not-unique"
     ELSE IF found.kind = "null" THEN "not-found"
     ELSE "none"

\* The error del throws, or "none".
DelError(db, identifier) ==
  LET found == DelLookup(db, identifier)
  IN IF found.kind = "error" THEN "not-unique"
     ELSE IF found.kind = "null" THEN "not-found"
     ELSE IF found.doc.schedulerJobId = NoHandle THEN "not-scheduled"
     ELSE "none"

\* del canceling the execution job only.
DelCancel_KeepsTrigger(sched, cron) ==
  IF cron.executionJobId # NoHandle
    THEN Cancel(sched, cron.executionJobId)
    ELSE sched

\* The scheduler after del's cancellations for the row.
DelCancel(sched, cron) ==
  LET s1 == Cancel(sched, cron.schedulerJobId)
  IN IF cron.executionJobId # NoHandle
       THEN Cancel(s1, cron.executionJobId)
       ELSE s1

\* del clearing the row's schedulerJobId instead of deleting the row.
Delete_ClearsHandle(db, id) == [db EXCEPT ![id].schedulerJobId = NoHandle]

\* del leaving the row in the table.
Delete_KeepsRow(db, id) == db

\* ctx.db.delete(id).
Delete(db, id) == [i \in DOMAIN db \ {id} |-> db[i]]

Del(identifier) ==
  LET err == DelError(crons, identifier)
  IN IF err # "none"
       THEN /\ last' = [op |-> "del", err |-> err, id |-> NoId]
            /\ UNCHANGED <<crons, nextId, scheduled, inflight, now>>
       ELSE LET found == DelLookup(crons, identifier)
            IN /\ scheduled' = DelCancel(scheduled, found.doc)
               /\ crons' = Delete(crons, found.id)
               /\ last' = [op |-> "del", err |-> "none", id |-> found.id]
               /\ UNCHANGED <<nextId, inflight, now>>

----------------------------------------------------------------------------
(* rescheduler *)

\* The rescheduler taking a missing row for a row that is not scheduled.
ReschedulerError_MissingAsUnscheduled(db, sched, id) ==
  IF id \notin DOMAIN db \/ db[id].schedulerJobId = NoHandle
    THEN "not-scheduled"
  ELSE IF db[id].schedulerJobId \notin DOMAIN sched THEN "scheduler-job-not-found"
  ELSE IF sched[db[id].schedulerJobId].state \notin Active THEN "stale-state"
  ELSE "none"

\* The rescheduler's checks without the one on the scheduler job's state.
ReschedulerError_NoStateCheck(db, sched, id) ==
  IF id \notin DOMAIN db THEN "not-found"
  ELSE IF db[id].schedulerJobId = NoHandle THEN "not-scheduled"
  ELSE IF db[id].schedulerJobId \notin DOMAIN sched THEN "scheduler-job-not-found"
  ELSE "none"

\* The error rescheduler throws for the job id it is invoked with, or "none".
ReschedulerError(db, sched, id) ==
  IF id \notin DOMAIN db THEN "not-found"
  ELSE IF db[id].schedulerJobId = NoHandle THEN "not-scheduled"
  ELSE IF db[id].schedulerJobId \notin DOMAIN sched THEN "scheduler-job-not-found"
  ELSE IF sched[db[id].schedulerJobId].state \notin Active THEN "stale-state"
  ELSE "none"

\* stillRunning: the row's executionJobId names an entry that is pending or
\* in progress.
StillRunning(sched, cronJob) ==
  /\ cronJob.executionJobId # NoHandle
  /\ cronJob.executionJobId \in DOMAIN sched
  /\ sched[cronJob.executionJobId].state \in Active

\* A dispatch that passes the function handle where the arguments belong.
Dispatch_PassesHandle(sched, cronJob, id, t) ==
  RunAt(sched, t, cronJob.functionHandle, cronJob.functionHandle, id)

\* A dispatch that schedules the payload twice.
Dispatch_Twice(sched, cronJob, id, t) ==
  RunAt(RunAt(sched, t, cronJob.functionHandle, cronJob.args, id),
        t, cronJob.functionHandle, cronJob.args, id)

\* ctx.scheduler.runAfter(0, cronJob.functionHandle, cronJob.args): the
\* payload, due now. The handle runAfter returns is dropped.
Dispatch(sched, cronJob, id, t) ==
  RunAt(sched, t, cronJob.functionHandle, cronJob.args, id)

\* A rescheduler run that writes the row back without its name.
ReschedulerRun_DropsName(db, sched, id, t) ==
  LET cronJob == db[id]
      schedulerJob == sched[cronJob.schedulerJobId]
      sched1 == IF StillRunning(sched, cronJob)
                  THEN sched
                  ELSE Dispatch(sched, cronJob, id, t)
  IN scheduleNextRun([db EXCEPT ![id].name = None], sched1, id,
                     schedulerJob.scheduledTime, cronJob.schedule)

\* A rescheduler run that dispatches the payload and arms nothing.
ReschedulerRun_NoRearm(db, sched, id, t) ==
  LET cronJob == db[id]
  IN [crons |-> db,
      scheduled |-> IF StillRunning(sched, cronJob)
                      THEN sched
                      ELSE Dispatch(sched, cronJob, id, t)]

\* A rescheduler run that anchors the next run at the time it executes.
ReschedulerRun_WallClock(db, sched, id, t) ==
  LET cronJob == db[id]
      sched1 == IF StillRunning(sched, cronJob)
                  THEN sched
                  ELSE Dispatch(sched, cronJob, id, t)
  IN scheduleNextRun(db, sched1, id, t, cronJob.schedule)

\* The two tables after a rescheduler run that throws nothing.
ReschedulerRun(db, sched, id, t) ==
  LET cronJob == db[id]
      schedulerJob == sched[cronJob.schedulerJobId]
      sched1 == IF StillRunning(sched, cronJob)
                  THEN sched
                  ELSE Dispatch(sched, cronJob, id, t)
  IN scheduleNextRun(db, sched1, id, schedulerJob.scheduledTime,
                     cronJob.schedule)

\* The scheduler's table as the running rescheduler reads it: the entry it
\* runs as is pending under the production scheduler, which leaves a
\* mutation's entry pending while it runs, and inProgress under the test
\* library. A canceled entry stays canceled.
Running(sched, h, st) ==
  IF sched[h].state \in Active THEN [sched EXCEPT ![h].state = st] ELSE sched

\* The scheduler runs the rescheduler it invoked as entry h, in one
\* transaction; the entry ends as success, or as failed when it throws.
Rescheduler(h) ==
  /\ h \in inflight
  /\ \E st \in Active :
       LET id == scheduled[h].args
           sched0 == Running(scheduled, h, st)
           err == ReschedulerError(crons, sched0, id)
       IN IF err # "none"
            THEN /\ scheduled' = Finish(sched0, h, "failed")
                 /\ last' = [op |-> "rescheduler", err |-> err, id |-> id]
                 /\ UNCHANGED <<crons, nextId, now>>
            ELSE LET out == ReschedulerRun(crons, sched0, id, now)
                 IN /\ Len(out.scheduled) <= MaxScheduled
                    /\ crons' = out.crons
                    /\ scheduled' = Finish(out.scheduled, h, "success")
                    /\ last' = [op |-> "rescheduler", err |-> "none", id |-> id]
                    /\ UNCHANGED <<nextId, now>>
  /\ inflight' = inflight \ {h}

----------------------------------------------------------------------------
(* The platform: the scheduler's own steps and the clock. *)

\* What `last` holds after a step that is no call of the component.
Idle == [op |-> "none", err |-> "none", id |-> NoId]

\* The later of two times.
Later(t, u) == IF t >= u THEN t ELSE u

\* The scheduler invokes a pending rescheduler entry, at or after its
\* scheduled time: the clock is at that time by then, or later when the
\* entry waited while the scheduler ran others. From here on the call is
\* under way, whatever happens to the entry.
Invoke(h) ==
  /\ h \in DOMAIN scheduled
  /\ h \notin inflight
  /\ scheduled[h].fn = ReschedulerFn
  /\ scheduled[h].state = "pending"
  /\ now' = Later(now, scheduled[h].scheduledTime)
  /\ inflight' = inflight \cup {h}
  /\ last' = Idle
  /\ UNCHANGED <<crons, nextId, scheduled>>

\* A payload starts running; it was due when it was dispatched.
PayloadStart(h) ==
  /\ h \in DOMAIN scheduled
  /\ scheduled[h].fn # ReschedulerFn
  /\ scheduled[h].state = "pending"
  /\ scheduled' = [scheduled EXCEPT ![h].state = "inProgress"]
  /\ last' = Idle
  /\ UNCHANGED <<crons, nextId, inflight, now>>

\* A running payload returns or throws.
PayloadEnd(h) ==
  /\ h \in DOMAIN scheduled
  /\ scheduled[h].fn # ReschedulerFn
  /\ scheduled[h].state = "inProgress"
  /\ scheduled' = [scheduled EXCEPT ![h].state = "success"]
  /\ last' = Idle
  /\ UNCHANGED <<crons, nextId, inflight, now>>

----------------------------------------------------------------------------
(* A rescheduler run that never commits ("If this mutation fails (OCC) the  *)
(* cron will be lost").                                                    *)

\* The tables after a transaction that aborts: what they were before it,
\* whatever it had written (out) by then.
Abort(db, sched, out) == [crons |-> db, scheduled |-> sched]

\* The platform giving the failed run's entry another try.
RescheduleLost_Retried(h) ==
  /\ h \in inflight
  /\ ReschedulerError(crons, scheduled, scheduled[h].args) = "none"
  /\ inflight' = inflight \ {h}
  /\ last' = [op |-> "rescheduler", err |-> "commit-failed",
              id |-> scheduled[h].args]
  /\ UNCHANGED <<crons, nextId, scheduled, now>>

\* The rescheduler runs as entry h for a live job, passes its checks,
\* dispatches and rearms, and its transaction fails to commit for good: its
\* writes are rolled back and the entry ends as failed.
RescheduleLost(h) ==
  /\ h \in inflight
  /\ ReschedulerError(crons, scheduled, scheduled[h].args) = "none"
  /\ LET id == scheduled[h].args
         out == ReschedulerRun(crons, scheduled, id, now)
         back == Abort(crons, scheduled, out)
     IN /\ Len(out.scheduled) <= MaxScheduled
        /\ crons' = back.crons
        /\ scheduled' = Finish(back.scheduled, h, "failed")
        /\ last' = [op |-> "rescheduler", err |-> "commit-failed", id |-> id]
  /\ inflight' = inflight \ {h}
  /\ UNCHANGED <<nextId, now>>

----------------------------------------------------------------------------
(* The example app's init script (src/example/convex/example.ts). *)

\* What registerDailyCron passes to register.
DailyName == "daily"
DailySchedule == [kind |-> "cron", cronspec |-> "0 0 * * *"]
DailyArgs == "daily cron"

\* The init script calling register without asking get first.
RegisterDailyCron_NoCheck ==
  Register(Some(DailyName), DailySchedule, "function://logStuff", DailyArgs)

\* registerDailyCron, one mutation: register the job named "daily" if get by
\* that name yields null; an error get throws aborts the mutation.
RegisterDailyCron ==
  LET existingCron == get(crons, [name |-> DailyName])
  IN IF existingCron.kind = "error"
       THEN /\ last' = [op |-> "registerDailyCron", err |-> "not-unique",
                        id |-> NoId]
            /\ UNCHANGED <<crons, nextId, scheduled, inflight, now>>
     ELSE IF existingCron.kind = "doc"
       THEN /\ last' = [op |-> "registerDailyCron", err |-> "none",
                        id |-> NoId]
            /\ UNCHANGED <<crons, nextId, scheduled, inflight, now>>
     ELSE Register(Some(DailyName), DailySchedule, "function://logStuff",
                   DailyArgs)

----------------------------------------------------------------------------
(* A job that deletes itself: its payload is a mutation that calls del with *)
(* the job's name.                                                         *)

\* The payload's function handle; its argument is the job's name.
DeleteSelfFn == "function://deleteSelf"

\* register of the self-deleting job: a named interval job.
RegisterDeleteSelf ==
  Register(Some(DailyName), [kind |-> "interval", ms |-> Num(MinIntervalMs)],
           DeleteSelfFn, DailyName)

\* A running execution of the payload calls del({name}) and ends: as
\* success when del returns, as failed when del throws.
DeleteSelf(h) ==
  /\ h \in DOMAIN scheduled
  /\ scheduled[h].fn = DeleteSelfFn
  /\ scheduled[h].state = "inProgress"
  /\ LET identifier == [name |-> scheduled[h].args]
         err == DelError(crons, identifier)
     IN IF err # "none"
          THEN /\ scheduled' = Finish(scheduled, h, "failed")
               /\ last' = [op |-> "deleteSelf", err |-> err, id |-> NoId]
               /\ UNCHANGED <<crons, nextId, inflight, now>>
          ELSE LET found == DelLookup(crons, identifier)
               IN /\ scheduled' = Finish(DelCancel(scheduled, found.doc),
                                         h, "success")
                  /\ crons' = Delete(crons, found.id)
                  /\ last' = [op |-> "deleteSelf", err |-> "none",
                              id |-> found.id]
                  /\ UNCHANGED <<nextId, inflight, now>>

\* A running execution of another job's payload returns.
OtherPayloadEnd(h) ==
  /\ h \in DOMAIN scheduled
  /\ scheduled[h].fn # DeleteSelfFn
  /\ PayloadEnd(h)

----------------------------------------------------------------------------
(* The specification. *)

Init ==
  /\ crons = <<>>
  /\ nextId = 1
  /\ scheduled = <<>>
  /\ inflight = {}
  /\ now = 0
  /\ last = Idle

Next ==
  \/ \E name \in OptNames, schedule \in Schedules,
        functionHandle \in FunctionHandles, args \in PayloadArgs :
       Register(name, schedule, functionHandle, args)
  \/ \E identifier \in Identifiers : Del(identifier)
  \/ \E h \in 1..MaxScheduled : Rescheduler(h)
  \/ \E h \in 1..MaxScheduled : Invoke(h)
  \/ \E h \in 1..MaxScheduled : PayloadStart(h)
  \/ \E h \in 1..MaxScheduled : PayloadEnd(h)

Spec == Init /\ [][Next]_vars

\* The component under a scheduler that eventually invokes every pending
\* entry and runs every function it invoked, each run committing, and that
\* eventually starts and ends every payload execution.
Fairness ==
  \A h \in 1..MaxScheduled :
    /\ WF_vars(Invoke(h))
    /\ WF_vars(Rescheduler(h))
    /\ WF_vars(PayloadStart(h))
    /\ WF_vars(PayloadEnd(h))

SpecLive == Init /\ [][Next]_vars /\ Fairness

\* The component with unnamed interval jobs of every accepted interval.
NextInterval ==
  \/ \E ms \in AcceptedMs, functionHandle \in FunctionHandles,
        args \in PayloadArgs :
       Register(None, [kind |-> "interval", ms |-> ms], functionHandle, args)
  \/ \E identifier \in Identifiers : Del(identifier)
  \/ \E h \in 1..MaxScheduled : Rescheduler(h)
  \/ \E h \in 1..MaxScheduled : Invoke(h)
  \/ \E h \in 1..MaxScheduled : PayloadStart(h)
  \/ \E h \in 1..MaxScheduled : PayloadEnd(h)

SpecInterval == Init /\ [][NextInterval]_vars

\* The component with rescheduler runs that may fail to commit for good.
NextLost ==
  \/ Next
  \/ \E h \in 1..MaxScheduled : RescheduleLost(h)

SpecLost == Init /\ [][NextLost]_vars

\* The example app: the init script run any number of times, the scheduler's
\* steps, and del.
NextDaily ==
  \/ RegisterDailyCron
  \/ \E identifier \in Identifiers : Del(identifier)
  \/ \E h \in 1..MaxScheduled : Rescheduler(h)
  \/ \E h \in 1..MaxScheduled : Invoke(h)
  \/ \E h \in 1..MaxScheduled : PayloadStart(h)
  \/ \E h \in 1..MaxScheduled : PayloadEnd(h)

SpecDaily == Init /\ [][NextDaily]_vars

\* The self-deleting job next to unnamed jobs with other payloads: the
\* registers, the scheduler's steps, and the executions of the self-deleting
\* payload as the only callers of del.
NextDeleteSelf ==
  \/ RegisterDeleteSelf
  \/ \E schedule \in Schedules, functionHandle \in FunctionHandles,
        args \in PayloadArgs :
       Register(None, schedule, functionHandle, args)
  \/ \E h \in 1..MaxScheduled : Rescheduler(h)
  \/ \E h \in 1..MaxScheduled : Invoke(h)
  \/ \E h \in 1..MaxScheduled : PayloadStart(h)
  \/ \E h \in 1..MaxScheduled : DeleteSelf(h)
  \/ \E h \in 1..MaxScheduled : OtherPayloadEnd(h)

SpecDeleteSelf == Init /\ [][NextDeleteSelf]_vars

\* The states a scheduler entry can be in.
EntryStates == {"pending", "inProgress", "success", "failed", "canceled"}

\* The tables as the rescheduler's checks of its scheduling context take
\* them to be possible: job 1 with a schedulerJobId that is absent, names
\* entry 1 in any state, names the entry the rescheduler runs as, or names
\* no entry; the scheduler has invoked the rescheduler for job 1 as entry 2.
InitStale ==
  /\ \E sj \in {NoHandle, 1, 2, MaxScheduled + 1} :
       crons = Insert(<<>>, 1,
                      [NewRow(None,
                              [kind |-> "interval", ms |-> Num(MinIntervalMs)],
                              "function://logStuff", "message")
                         EXCEPT !.schedulerJobId = sj])
  /\ nextId = 2
  /\ \E st \in EntryStates :
       scheduled =
         <<[fn |-> ReschedulerFn, args |-> 1, scheduledTime |-> MinIntervalMs,
            state |-> st, by |-> 1],
           [fn |-> ReschedulerFn, args |-> 1,
            scheduledTime |-> 2 * MinIntervalMs, state |-> "pending",
            by |-> 1]>>
  /\ inflight = {2}
  /\ now = 2 * MinIntervalMs
  /\ last = Idle

\* The rescheduler and the scheduler's steps from those tables, and del.
NextStale ==
  \/ \E identifier \in Identifiers : Del(identifier)
  \/ \E h \in 1..MaxScheduled : Rescheduler(h)
  \/ \E h \in 1..MaxScheduled : Invoke(h)
  \/ \E h \in 1..MaxScheduled : PayloadStart(h)
  \/ \E h \in 1..MaxScheduled : PayloadEnd(h)

SpecStale == InitStale /\ [][NextStale]_vars

----------------------------------------------------------------------------
(* Vocabulary of the properties. *)

\* Ids the table has handed out.
Issued == 1..(nextId - 1)

\* Jobs that were registered and have been deleted.
Deleted == Issued \ DOMAIN crons

\* The payload executions the rescheduler dispatched for job j.
Payloads(j) ==
  {h \in DOMAIN scheduled :
     scheduled[h].fn # ReschedulerFn /\ scheduled[h].by = j}

\* The scheduler entries that target the rescheduler with job j's id.
Triggers(j) ==
  {h \in DOMAIN scheduled :
     scheduled[h].fn = ReschedulerFn /\ scheduled[h].args = j}

\* The entries of S that are pending or in progress.
ActiveOf(S) == {h \in S : scheduled[h].state \in Active}

\* The largest handle of S, the most recent one; NoHandle for none.
Latest(S) == IF S = {} THEN NoHandle ELSE CHOOSE h \in S : \A g \in S : g <= h

\* The most recent payload execution dispatched for job j.
LastDispatch(j) == Latest(Payloads(j))

\* A rescheduler run for job j has just committed.
Fired(j) == last.op = "rescheduler" /\ last.err = "none" /\ last.id = j

----------------------------------------------------------------------------
(* C1 *)

\* C1: in every reachable state, every job has at most one payload
\* execution dispatched by the rescheduler that is pending or in progress.
C1_NoOverlap ==
  \A j \in Issued : Cardinality(ActiveOf(Payloads(j))) <= 1

(* C2 *)

C3_ExecutionHandleStored ==
  \A j \in DOMAIN crons :
    Payloads(j) # {} => crons[j].executionJobId = LastDispatch(j)

(* C4 *)

\* C4: in every reachable state, every live job has exactly one scheduler
\* entry that targets the rescheduler with its id and is pending or in
\* progress, and it is the entry the row's schedulerJobId names.
C4_OneTrigger ==
  \A j \in DOMAIN crons :
    ActiveOf(Triggers(j)) = {crons[j].schedulerJobId}

\* A job has been fired and rearmed while another job is live.
C4_Witness ==
  \E j \in DOMAIN crons :
    /\ Fired(j)
    /\ Cardinality(Triggers(j)) >= 2
    /\ Cardinality(DOMAIN crons) >= 2

(* C5 *)

\* C5: in every reachable state, no two live rows carry the same name,
\* whatever string the name is, the empty string included.
C5_UniqueNames ==
  \A i, j \in DOMAIN crons :
    (i # j /\ crons[i].name # None) => crons[i].name # crons[j].name

(* C6 *)

\* C6: register with a name some live row carries throws the duplicate-name
\* error and changes neither the rows nor the scheduler.
C6_DuplicateNameRejected ==
  [][\A n \in NameStrings, schedule \in Schedules,
        functionHandle \in FunctionHandles, args \in PayloadArgs :
       (WithName(crons, n) # {}
          /\ Register(Some(n), schedule, functionHandle, args))
         => /\ last'.err = "duplicate-name"
            /\ UNCHANGED <<crons, nextId, scheduled>>]_vars

(* C7 *)

\* An interval below 1000 ms, or a cron expression that does not parse.
InvalidSchedule(schedule) ==
  \/ schedule.kind = "interval" /\ schedule.ms < Num(1000)
  \/ schedule.kind = "cron" /\ schedule.cronspec \notin DOMAIN CronPeriod

\* The schedules callers pass that are invalid.
InvalidSchedules == {schedule \in Schedules : InvalidSchedule(schedule)}

\* C7: register with an interval below 1000 ms or a cron expression that does
\* not parse throws, and inserts no row and arms no firing.
C7_InvalidScheduleRejected ==
  [][last'.op = "register" =>
       \A schedule \in InvalidSchedules, name \in OptNames,
          functionHandle \in FunctionHandles, args \in PayloadArgs :
         Register(name, schedule, functionHandle, args)
           => /\ last'.err \in {"invalid-interval", "invalid-cronspec",
                                "duplicate-name"}
              /\ UNCHANGED <<crons, nextId, scheduled, inflight>>]_vars

\* A register has just been rejected for its interval while a job is live.
C7_Witness ==
  /\ last.op = "register"
  /\ last.err = "invalid-interval"
  /\ DOMAIN crons # {}

(* C8 *)

\* C8: right after a register of a named job that returned id i, get by id i
\* and get by that name return the same row, whose schedulerJobId names a
\* pending entry that targets the rescheduler with id i.
C8_RegisteredIsVisible ==
  (last.op = "register" /\ last.err = "none"
     /\ crons[last.id].name # None)
    => LET i == last.id
           byId == get(crons, [id |-> i])
           byName == get(crons, [name |-> crons[i].name[1]])
       IN /\ byId.kind = "doc"
          /\ byName = byId
          /\ byId.doc.schedulerJobId \in Triggers(i)
          /\ scheduled[byId.doc.schedulerJobId].state = "pending"

(* C9 *)

\* No deleted job has a pending or in-progress rescheduler entry, and no
\* live row names a canceled entry.
C9_State ==
  /\ \A j \in Deleted : ActiveOf(Triggers(j)) = {}
  /\ \A j \in DOMAIN crons :
       /\ scheduled[crons[j].schedulerJobId].state # "canceled"
       /\ crons[j].executionJobId # NoHandle
            => scheduled[crons[j].executionJobId].state # "canceled"

\* No step dispatches a payload or arms a firing for a deleted job, or
\* brings its row back.
C9_Step ==
  \A j \in Deleted :
    /\ Payloads(j)' = Payloads(j)
    /\ Triggers(j)' = Triggers(j)
    /\ j \notin DOMAIN crons'

\* C9: once del of a job has committed, no rescheduler entry for the job is
\* pending, no later step dispatches its payload or arms a firing for it, and
\* no state shows a live row whose handles are canceled.
C9_DeleteIsFinal == []C9_State /\ [][C9_Step]_vars

\* A rescheduler invoked before the del of its job ran after it.
C9_Witness ==
  /\ last.op = "rescheduler"
  /\ last.err = "not-found"
  /\ last.id \in Deleted

(* C10 *)

\* C10: once del of a job has committed, the most recent payload execution
\* dispatched for the job is not pending or in progress.
C10_DeleteCancelsPayload ==
  \A j \in Deleted : LastDispatch(j) \notin ActiveOf(Payloads(j))

(* C11 *)

\* The live rows an identifier matches: the row with that id, or the rows
\* with that name.
Matching(db, identifier) ==
  IF "id" \in DOMAIN identifier
    THEN {identifier.id} \cap DOMAIN db
    ELSE {i \in DOMAIN db : db[i].name = Some(identifier.name)}

\* C11: del with an id or a name that matches no live row throws the
\* not-found error and changes neither the rows nor the scheduler.
C11_DeleteUnknownRejected ==
  [][last'.op = "del"
       => \A identifier \in Identifiers :
            (Matching(crons, identifier) = {} /\ Del(identifier))
              => /\ last'.err = "not-found"
                 /\ UNCHANGED <<crons, nextId, scheduled, inflight>>]_vars

\* del has thrown not-found while a row is live and its trigger is armed.
C11_Witness ==
  /\ last.op = "del"
  /\ last.err = "not-found"
  /\ \E j \in DOMAIN crons : ActiveOf(Triggers(j)) # {}

(* C12 *)

\* A register call has just committed.
Registered == last.op = "register" /\ last.err = "none"

\* C12: right after a del that succeeds, get with the same identifier
\* yields null and list holds no row with the deleted id; and an identifier
\* for which get yields null keeps yielding null across every step other
\* than a register that commits.
C12_DeletedIsGone ==
  [][/\ last'.op = "del" /\ last'.err = "none"
          => \A identifier \in Identifiers :
               Del(identifier)
                 => /\ get(crons', identifier).kind = "null"
                    /\ \A r \in list(crons') : r.id # last'.id
     /\ ~Registered'
          => \A identifier \in Identifiers :
               get(crons, identifier).kind = "null"
                 => get(crons', identifier).kind = "null"]_vars

\* del by name has succeeded and another row is still live.
C12_Witness ==
  /\ last.op = "del"
  /\ last.err = "none"
  /\ DOMAIN crons # {}
  /\ get(crons, [name |-> "daily"]).kind = "null"
  /\ Deleted # {}

(* C13 *)

\* C13: in every reachable state, get with any identifier, an id or a name
\* of any string, yields the matching row or null and throws no error.
C13_GetNeverThrows ==
  \A identifier \in Identifiers :
    get(crons, identifier).kind \in {"doc", "null"}

(* C14 *)

\* The triggers of job j armed after h, up to and including g.
TriggersBetween(j, h, g) == {x \in Triggers(j) : h < x /\ x <= g}

\* C14: for a live interval job of ms milliseconds, register, at time t0,
\* arms the first firing at t0 + ms, and the firings are scheduled ms apart:
\* the k-th at t0 + k * ms, however late each firing ran.
C14_IntervalAnchored ==
  /\ [](\A j \in DOMAIN crons :
          crons[j].schedule.kind = "interval"
            => \A h, g \in Triggers(j) :
                 h < g => Num(scheduled[g].scheduledTime)
                            = Num(scheduled[h].scheduledTime)
                                + Cardinality(TriggersBetween(j, h, g))
                                    * crons[j].schedule.ms)
  /\ [][\A j \in DOMAIN crons' :
          (Registered' /\ last'.id = j
             /\ crons'[j].schedule.kind = "interval")
            => Num(scheduled'[crons'[j].schedulerJobId].scheduledTime)
                 = Num(now) + crons'[j].schedule.ms]_vars

\* An interval job's firing has run later than its scheduled time and has
\* armed the next one.
C14_Witness ==
  \E j \in DOMAIN crons :
    /\ Fired(j)
    /\ crons[j].schedule.kind = "interval"
    /\ LET ran == Latest(Triggers(j) \ {crons[j].schedulerJobId})
       IN /\ ran # NoHandle
          /\ scheduled[ran].scheduledTime < now

(* C15 *)

\* C15: register of an interval job dispatches no payload; and a firing of a
\* live interval job whose earlier payload executions have all finished
\* dispatches the payload exactly once, so that k such firings make k
\* dispatches, and leaves exactly one trigger of the job pending or in
\* progress.
C15_OneDispatchPerFiring ==
  [][\A j \in DOMAIN crons' :
       crons'[j].schedule.kind = "interval"
         => /\ (Registered' /\ last'.id = j) => Payloads(j)' = {}
            /\ (Fired(j)' /\ ActiveOf(Payloads(j)) = {})
                 => /\ Payloads(j) \subseteq Payloads(j)'
                    /\ Cardinality(Payloads(j)')
                         = Cardinality(Payloads(j)) + 1
                    /\ Cardinality(ActiveOf(Triggers(j))') = 1]_vars

\* An interval job has fired twice, the first payload execution having
\* finished before the second firing.
C15_Witness ==
  \E j \in DOMAIN crons :
    /\ Fired(j)
    /\ crons[j].schedule.kind = "interval"
    /\ Cardinality(Payloads(j)) = 2
    /\ \A p \in Payloads(j) \ {LastDispatch(j)} :
         scheduled[p].state = "success"

(* C16 *)

\* C16: a run of the init script (register the name if get by that name is
\* null), as one transaction, throws nothing and leaves exactly one live row
\* with that name, with exactly one trigger pending or in progress; a run
\* that finds the row changes nothing.
C16_InitIdempotent ==
  [][RegisterDailyCron
       => /\ last'.err = "none"
          /\ Cardinality(WithName(crons', DailyName)) = 1
          /\ \A j \in WithName(crons', DailyName) :
               Cardinality(ActiveOf(Triggers(j))') = 1
          /\ WithName(crons, DailyName) # {}
               => UNCHANGED <<crons, nextId, scheduled, inflight, now>>]_vars

\* The init script has run again after the job it registered has fired, and
\* has left it alone.
C16_Witness ==
  /\ last.op = "registerDailyCron"
  /\ last.err = "none"
  /\ \E j \in WithName(crons, DailyName) : Cardinality(Triggers(j)) >= 2

(* C17 *)

\* C17: every execution of a payload that calls del({name}) on its own job,
\* nobody else deleting it, finds the job live and scheduled: its del throws
\* nothing, and after it the job is deleted and none of the job's triggers
\* is pending or in progress.
C17_SelfDeleteSucceeds ==
  last.op = "deleteSelf"
    => /\ last.err = "none"
       /\ last.id \notin DOMAIN crons
       /\ ActiveOf(Triggers(last.id)) = {}

(* C18 *)

\* Entry h is a trigger: it targets the rescheduler.
IsTrigger(h) == h \in DOMAIN scheduled /\ scheduled[h].fn = ReschedulerFn

\* Entry h is a trigger that waits to be invoked.
Armed(h) == IsTrigger(h) /\ scheduled[h].state = "pending"

\* The job trigger h was armed for has been deleted.
JobDeleted(h) == scheduled[h].args \notin DOMAIN crons

\* The scheduler's table has no room for a firing's two new entries: the
\* model's bound on the run, not a state of the program.
Full == Len(scheduled) + 2 > MaxScheduled

\* C18: under a scheduler that eventually invokes every pending entry, every
\* firing committing, each armed trigger of a job that is not deleted leads
\* to a firing that ends as success with a successor trigger armed; and
\* when no payload execution of the job is still unfinished, to a new
\* dispatch of the payload. (Up to the bound of the scheduler's table; the
\* chain of a live job has no end before it.)
C18_ChainContinues ==
  \A h \in 1..MaxScheduled :
    /\ Armed(h)
         ~> (\/ Full
             \/ /\ IsTrigger(h)
                /\ \/ JobDeleted(h)
                   \/ /\ scheduled[h].state = "success"
                      /\ \E g \in Triggers(scheduled[h].args) : g > h)
    /\ (Armed(h) /\ ActiveOf(Payloads(scheduled[h].args)) = {})
         ~> (\/ Full
             \/ /\ IsTrigger(h)
                /\ \/ JobDeleted(h)
                   \/ \E p \in Payloads(scheduled[h].args) : p > h)

\* A trigger armed by a firing has fired in turn: the job has fired twice
\* and its third trigger is armed.
C18_Witness ==
  \E j \in DOMAIN crons :
    /\ Cardinality({h \in Triggers(j) : scheduled[h].state = "success"}) = 2
    /\ Armed(crons[j].schedulerJobId)

(* C19 *)

\* The ids of the rows list returns.
ListIds(db) == {r.id : r \in list(db)}

\* C19: list returns the live jobs and nothing else: each row it returns is
\* the record of an issued id, once; a register that commits adds its job to
\* what list returns, a del that succeeds removes its job, and no other step
\* (a rejected register, a failed del, a firing, a payload run) adds or
\* removes any.
C19_ListIsLive ==
  /\ [](/\ \A r \in list(crons) : r.id \in Issued /\ r.doc = crons[r.id]
        /\ Cardinality(list(crons)) = Cardinality(ListIds(crons)))
  /\ [][IF Registered'
          THEN /\ last'.id \notin ListIds(crons)
               /\ ListIds(crons') = ListIds(crons) \cup {last'.id}
        ELSE IF last'.op = "del" /\ last'.err = "none"
          THEN /\ last'.id \in ListIds(crons)
               /\ ListIds(crons') = ListIds(crons) \ {last'.id}
        ELSE ListIds(crons') = ListIds(crons)]_vars

\* A job has been registered after another was deleted, and list returns
\* the new one alone.
C19_Witness ==
  /\ Registered
  /\ Deleted # {}
  /\ ListIds(crons) = {last.id}

(* C20 *)

\* Job j's scheduling context is not authoritative: the row has no
\* schedulerJobId, or it names no scheduler entry, or the entry it names is
\* completed, failed or canceled.
Stale(j) ==
  \/ crons[j].schedulerJobId = NoHandle
  \/ crons[j].schedulerJobId \notin DOMAIN scheduled
  \/ scheduled[crons[j].schedulerJobId].state \notin Active

\* C20: a rescheduler run for a live job whose row has no schedulerJobId, or
\* one that names no scheduler entry, or one whose entry is completed, failed
\* or canceled, throws: it dispatches no payload, arms no trigger and leaves
\* the row as it was. A run for a live job whose schedulerJobId names a
\* pending or in-progress entry throws nothing and arms a trigger.
C20_StaleFiringAborts ==
  [][\A j \in DOMAIN crons :
       (last'.op = "rescheduler" /\ last'.id = j)
         => IF Stale(j)
              THEN /\ last'.err # "none"
                   /\ crons' = crons
                   /\ Len(scheduled') = Len(scheduled)
                   /\ Payloads(j)' = Payloads(j)
                   /\ Triggers(j)' = Triggers(j)
              ELSE /\ last'.err = "none"
                   /\ Cardinality(Triggers(j)' \ Triggers(j)) = 1]_vars

\* A rescheduler run has thrown because the entry the row's schedulerJobId
\* names had been canceled.
C20_Witness ==
  /\ last.op = "rescheduler"
  /\ last.err = "stale-state"
  /\ last.id \in DOMAIN crons
  /\ scheduled[crons[last.id].schedulerJobId].state = "canceled"

(* C21 *)

\* C21: a rescheduler run invoked with the id of a job whose row has been
\* deleted throws not-found: it dispatches no payload, arms no trigger,
\* creates no row and changes none, whenever del commits between the
\* scheduler's invoking the rescheduler and its run.
C21_FiringAfterDelete ==
  [][\A j \in Deleted :
       (last'.op = "rescheduler" /\ last'.id = j)
         => /\ last'.err = "not-found"
            /\ Len(scheduled') = Len(scheduled)
            /\ UNCHANGED <<crons, nextId>>]_vars

\* The rescheduler has run for a job deleted after the scheduler invoked it,
\* while another job is live.
C21_Witness ==
  /\ last.op = "rescheduler"
  /\ last.id \in Deleted
  /\ last.err = "not-found"
  /\ DOMAIN crons # {}

(* C22 *)

\* C22: del of a row that has no schedulerJobId throws the not-scheduled
\* error and has no effect: the row stays and no scheduler entry is
\* canceled.
C22_DeleteUnscheduledRejected ==
  [][last'.op = "del"
       => \A identifier \in Identifiers :
            (/\ Cardinality(Matching(crons, identifier)) = 1
             /\ \A j \in Matching(crons, identifier) :
                  crons[j].schedulerJobId = NoHandle
             /\ Del(identifier))
              => /\ last'.err = "not-scheduled"
                 /\ UNCHANGED <<crons, nextId, scheduled, inflight>>]_vars

\* del has thrown not-scheduled for a row without schedulerJobId, and a
\* trigger for the job is still pending or in progress.
C22_Witness ==
  /\ last.op = "del"
  /\ last.err = "not-scheduled"
  /\ \E j \in DOMAIN crons :
       /\ crons[j].schedulerJobId = NoHandle
       /\ ActiveOf(Triggers(j)) # {}

(* C23 *)

\* C23: a register, a del or a rescheduler run that ends in an error leaves
\* the rows and the scheduler as they were before it: no row is added,
\* removed or changed and no scheduler entry is created or changed, save for
\* the state of the entry the failed rescheduler ran as, which the scheduler
\* sets to failed. A rescheduler run that fails after it dispatched the
\* payload leaves neither the payload nor a new trigger.
C23_AllOrNothing ==
  [][last'.err # "none"
       => /\ UNCHANGED <<crons, nextId>>
          /\ Len(scheduled') = Len(scheduled)
          /\ \A h \in DOMAIN scheduled :
               \/ scheduled'[h] = scheduled[h]
               \/ /\ last'.op = "rescheduler"
                  /\ h \in inflight \ inflight'
                  /\ scheduled'[h] = [scheduled[h] EXCEPT !.state = "failed"]]_vars

\* A rescheduler run has failed to commit after it had dispatched the
\* payload of a job that had fired before.
C23_Witness ==
  /\ last.op = "rescheduler"
  /\ last.err = "commit-failed"
  /\ last.id \in DOMAIN crons
  /\ Payloads(last.id) # {}

(* C24 *)

\* Job j's chain is lost: its row is live and the entry its schedulerJobId
\* names is completed, failed or canceled.
Lost(j) ==
  /\ j \in DOMAIN crons
  /\ crons[j].schedulerJobId \in DOMAIN scheduled
  /\ scheduled[crons[j].schedulerJobId].state \notin Active

\* C24: a rescheduler run of a live job that fails to commit for good leaves
\* the row live, unchanged, with a schedulerJobId whose entry is failed; from
\* then on the job has no trigger pending or in progress, and no step other
\* than a del that succeeds changes the row, arms a trigger for the job or
\* dispatches its payload.
C24_LostChain ==
  /\ [](\A j \in DOMAIN crons : Lost(j) => ActiveOf(Triggers(j)) = {})
  /\ [][\A j \in DOMAIN crons :
          /\ (last'.err = "commit-failed" /\ last'.id = j)
               => /\ Lost(j)'
                  /\ crons'[j] = crons[j]
                  /\ scheduled'[crons[j].schedulerJobId].state = "failed"
          /\ Lost(j)
               => /\ Triggers(j)' = Triggers(j)
                  /\ Payloads(j)' = Payloads(j)
                  /\ IF j \in DOMAIN crons'
                       THEN crons'[j] = crons[j]
                       ELSE last'.op = "del" /\ last'.err = "none"]_vars

\* A job's chain is lost, and another job has fired since.
C24_Witness ==
  \E j \in DOMAIN crons :
    /\ Lost(j)
    /\ \E i \in DOMAIN crons : i # j /\ Fired(i)

(* C25 *)

\* C25: a rescheduler run that commits for job j changes, of the rows, only
\* j's schedulerJobId and executionJobId: j keeps its id, name, schedule,
\* functionHandle and args, no row is added or removed, and no other job's
\* row or scheduler entry is changed.
C25_FiringFrame ==
  [][\A j \in DOMAIN crons :
       Fired(j)'
         => /\ DOMAIN crons' = DOMAIN crons
            /\ crons'[j] = [crons[j] EXCEPT
                              !.schedulerJobId = crons'[j].schedulerJobId,
                              !.executionJobId = crons'[j].executionJobId]
            /\ \A i \in DOMAIN crons : i # j => crons'[i] = crons[i]
            /\ \A h \in DOMAIN scheduled :
                 scheduled[h].by # j => scheduled'[h] = scheduled[h]]_vars

\* A named job has fired while another job with a pending trigger is live.
C25_Witness ==
  \E j \in DOMAIN crons :
    /\ Fired(j)
    /\ crons[j].name # None
    /\ \E i \in DOMAIN crons : i # j /\ Armed(crons[i].schedulerJobId)

(* C26 *)

\* C26: a register that commits stores the function handle and the
\* arguments it was given in the row, no step changes them, and every
\* payload a rescheduler run of job j dispatches is one scheduler entry for
\* the row's function handle with the row's arguments, due at the time of
\* the run (delay 0), and is no entry for the rescheduler.
C26_DispatchAsRegistered ==
  [][/\ \A name \in OptNames, schedule \in Schedules,
          functionHandle \in FunctionHandles \cup {DeleteSelfFn},
          args \in PayloadArgs \cup {DailyName} :
          (Registered' /\ Register(name, schedule, functionHandle, args))
            => /\ crons'[last'.id].functionHandle = functionHandle
               /\ crons'[last'.id].args = args
     /\ \A j \in DOMAIN crons :
          /\ j \in DOMAIN crons'
               => /\ crons'[j].functionHandle = crons[j].functionHandle
                  /\ crons'[j].args = crons[j].args
          /\ Fired(j)'
               => \A p \in DOMAIN scheduled' \ DOMAIN scheduled :
                    \/ p = crons'[j].schedulerJobId
                    \/ /\ scheduled'[p].fn = crons[j].functionHandle
                       /\ scheduled'[p].fn # ReschedulerFn
                       /\ scheduled'[p].args = crons[j].args
                       /\ scheduled'[p].scheduledTime = now
                       /\ scheduled'[p].by = j]_vars

\* A job has fired and dispatched its payload while a job with another
\* function handle and other arguments is live.
C26_Witness ==
  \E i, j \in DOMAIN crons :
    /\ crons[i].functionHandle # crons[j].functionHandle
    /\ crons[i].args # crons[j].args
    /\ Fired(i)
    /\ Payloads(i) # {}

(* C30 *)

\* C30: once a del of a named job has succeeded, register with the same
\* name throws nothing; a register that commits for a name no live row
\* carries yields a row with that name under an id never issued before; and
\* a rescheduler run invoked with a deleted job's id dispatches nothing,
\* arms nothing and changes no row, the new job's included.
C30_NameReuse ==
  [][/\ \A j \in DOMAIN crons :
          (last'.op = "del" /\ last'.err = "none" /\ last'.id = j
             /\ crons[j].name # None)
            => RegisterError(crons', crons[j].name, DailySchedule) = "none"
     /\ (WithName(crons, DailyName) = {} /\ RegisterDailyCron)
          => /\ Registered'
             /\ last'.id \notin Issued
             /\ WithName(crons', DailyName) = {last'.id}
     /\ \A d \in Deleted :
          (last'.op = "rescheduler" /\ last'.id = d)
            => /\ crons' = crons
               /\ Len(scheduled') = Len(scheduled)]_vars

\* The name has been registered again after its job was deleted, and a
\* rescheduler invoked for the deleted job has run since.
C30_Witness ==
  /\ last.op = "rescheduler"
  /\ last.id \in Deleted
  /\ \E j \in WithName(crons, DailyName) : j > last.id

(* C27 *)

\* C27: a register that commits at time now creates one scheduler entry,
\* the job's trigger, due at calculateNextRun(now, schedule), which for an
\* interval is now + ms, and dispatches no payload; and every payload of a
\* job was dispatched after a rescheduler run of the job, never before the
\* first.
C27_RegisterArmsOnce ==
  /\ [](\A j \in Issued :
          \A p \in Payloads(j) :
            \E h \in Triggers(j) : h < p /\ scheduled[h].state = "success")
  /\ [][\A j \in DOMAIN crons' :
          (Registered' /\ last'.id = j)
            => /\ Len(scheduled') = Len(scheduled) + 1
               /\ Triggers(j)' = {crons'[j].schedulerJobId}
               /\ Payloads(j)' = {}
               /\ scheduled'[crons'[j].schedulerJobId].scheduledTime
                    = calculateNextRun(now, crons'[j].schedule)
               /\ crons'[j].schedule.kind = "interval"
                    => Num(scheduled'[crons'[j].schedulerJobId].scheduledTime)
                         = Num(now) + crons'[j].schedule.ms]_vars

(* C28 *)

\* The timestamps the component passes to calculateNextRun: the time of a
\* register, and the scheduled times of the triggers.
Timestamps ==
  {now} \cup {scheduled[h].scheduledTime : h \in DOMAIN scheduled}

\* C28: for every timestamp t and every interval schedule that passed
\* validateSchedule (ms >= 1000), calculateNextRun(t, schedule) is t + ms
\* exactly.
C28_IntervalNextRun ==
  \A j \in DOMAIN crons :
    crons[j].schedule.kind = "interval"
      => \A t \in Timestamps :
           Num(calculateNextRun(t, crons[j].schedule))
             = Num(t) + crons[j].schedule.ms

(* C29 *)

\* C29: for every job, live or deleted, of either schedule kind, the
\* scheduled times of its triggers strictly increase in the order they were
\* armed: each rescheduler run arms its successor at a time later than the
\* scheduled time of the entry it ran as.
C29_TimesIncrease ==
  \A j \in Issued :
    \A h, g \in Triggers(j) :
      h < g => scheduled[h].scheduledTime < scheduled[g].scheduledTime

\* A cron job has fired and armed its successor while an interval job is
\* live.
C29_Witness ==
  \E i, j \in DOMAIN crons :
    /\ crons[i].schedule.kind = "interval"
    /\ crons[j].schedule.kind = "cron"
    /\ Fired(j)
    /\ Cardinality(Triggers(j)) >= 2

====
